---- MODULE Spec2Model ----
(***************************************************************************)
(* Weather dashboard: the runtime loop of main.rs, the application state   *)
(* of app.rs, the key handler of handler.rs and the terminal set-up of     *)
(* tui.rs.  The event publisher (event.rs) is not among the sources; its   *)
(* channel is modelled from the specification as a FIFO queue fed by the   *)
(* timer and the input device, holding at most MaxQueue events here.       *)
(***************************************************************************)
EXTENDS Integers, Sequences, FiniteSets, TLC

(***************************************************************************)
(* Bounds of the exploration.                                              *)
(***************************************************************************)
\* events waiting in the channel at any time
MaxQueue == 2
\* events published in one run, any kind
MaxEvents == 4
\* delete keys published in one run of deletions
MaxDeletes == 11
\* other keys published in one run of deletions
MaxOthers == 2

VARIABLES
    app,          \* the App of app.rs
    pc,           \* where main is
    panic_msg,    \* the message of the panic that ended the process
    events,       \* the channel of the event publisher
    produced,     \* events published so far
    deletes,      \* delete keys published so far, in a run of deletions
    outstanding,  \* the cities of the get_data calls that have not returned
    last,         \* the event the loop has just handled, and the App before it
    returned,     \* the get_data call that has just returned, and the App before it
    fetch_failed, \* some get_data call has returned an error
    reply,        \* a response body and the CityInfo get_data makes of it
    raw_mode,     \* the terminal is in raw mode
    panic_hook    \* the panic hook of Tui::init is installed

vars == <<app, pc, panic_msg, events, produced, deletes, outstanding, last,
          returned, fetch_failed, reply, raw_mode, panic_hook>>

(***************************************************************************)
(* Option<T>: None is the empty sequence, Some(x) the one-element one.     *)
(***************************************************************************)
None == <<>>
Some(x) == <<x>>

(***************************************************************************)
(* Keys and events.                                                        *)
(***************************************************************************)
Chars == {"q", "a", "d", "r", " "}
Whitespace == {" "}
Sizes == {<<80, 24>>}

Key(code, ch) == [type |-> "Key", code |-> code, ch |-> ch, size |-> <<0, 0>>]
KeyEvents == {Key("Char", c) : c \in Chars}
             \cup {Key(k, "") : k \in {"Esc", "Up", "Down", "Enter", "Backspace"}}
TickEvent == [type |-> "Tick", code |-> "", ch |-> "", size |-> <<0, 0>>]
MouseEvent == [type |-> "Mouse", code |-> "", ch |-> "", size |-> <<0, 0>>]
ResizeEvents == {[type |-> "Resize", code |-> "", ch |-> "", size |-> s] : s \in Sizes}
Events == KeyEvents \cup {TickEvent, MouseEvent} \cup ResizeEvents

(***************************************************************************)
(* Strings: the input buffer is a sequence of characters; to_string makes  *)
(* the city name of it.                                                    *)
(***************************************************************************)
RECURSIVE to_string(_)
to_string(s) == IF s = <<>> THEN "" ELSE Head(s) \o to_string(Tail(s))

RECURSIVE trim_start(_)
trim_start(s) ==
    IF s # <<>> /\ Head(s) \in Whitespace THEN trim_start(Tail(s)) ELSE s

RECURSIVE trim_end(_)
trim_end(s) ==
    IF s # <<>> /\ s[Len(s)] \in Whitespace
    THEN trim_end(SubSeq(s, 1, Len(s) - 1))
    ELSE s

trim(s) == trim_end(trim_start(s))

\* Vec::remove(index): the elements after index shift left
remove(v, i) == SubSeq(v, 1, i) \o SubSeq(v, i + 2, Len(v))

(***************************************************************************)
(* app.rs                                                                  *)
(***************************************************************************)
SeedCities ==
    <<"Bucharest", "London", "New York", "Budapest", "Tokyo",
      "Paris", "Berlin", "Moscow", "Sydney", "Toronto">>

App_new ==
    [running |-> TRUE,
     input_mode |-> "Normal",
     input |-> <<>>,
     cities |-> SeedCities,
     selected_city |-> 0,
     current_weather |-> None,
     fetch_requested |-> FALSE,
     terminal_size |-> None]

request_weather_fetch(a) == [a EXCEPT !.fetch_requested = TRUE]

enter_edit_mode(a) == [a EXCEPT !.input_mode = "Editing", !.input = <<>>]

\* mutant: cancelling keeps the text typed so far
exit_edit_mode_keeps_input(a) == [a EXCEPT !.input_mode = "Normal"]

exit_edit_mode(a) == [a EXCEPT !.input_mode = "Normal", !.input = <<>>]

\* mutant: the emptiness test on the untrimmed input
add_city_untrimmed(a) ==
    LET pushed == [a EXCEPT !.cities = Append(a.cities, to_string(a.input))]
        added == IF a.input # <<>>
                 THEN request_weather_fetch(
                          [pushed EXCEPT !.selected_city = Len(pushed.cities) - 1])
                 ELSE a
    IN  [added EXCEPT !.input_mode = "Normal", !.input = <<>>]

\* mutant: the new city is appended but not selected
add_city_no_select(a) ==
    LET trimmed == trim(a.input)
        pushed == [a EXCEPT !.cities = Append(a.cities, to_string(trimmed))]
        added == IF trimmed # <<>> THEN request_weather_fetch(pushed) ELSE a
    IN  [added EXCEPT !.input_mode = "Normal", !.input = <<>>]

add_city(a) ==
    LET trimmed == trim(a.input)
        pushed == [a EXCEPT !.cities = Append(a.cities, to_string(trimmed))]
        added == IF trimmed # <<>>
                 THEN request_weather_fetch(
                          [pushed EXCEPT !.selected_city = Len(pushed.cities) - 1])
                 ELSE a
    IN  [added EXCEPT !.input_mode = "Normal", !.input = <<>>]

handle_input(a, c) == [a EXCEPT !.input = Append(a.input, c)]

delete_char(a) ==
    [a EXCEPT !.input = IF a.input = <<>> THEN <<>>
                        ELSE SubSeq(a.input, 1, Len(a.input) - 1)]

\* mutant: next without the wrap-around
next_city_no_wrap(a) ==
    IF a.cities # <<>>
    THEN request_weather_fetch([a EXCEPT !.selected_city = a.selected_city + 1])
    ELSE a

next_city(a) ==
    IF a.cities # <<>>
    THEN request_weather_fetch(
             [a EXCEPT !.selected_city = (a.selected_city + 1) % Len(a.cities)])
    ELSE a

\* mutant: previous without the check for an empty list
previous_city_unguarded(a) ==
    request_weather_fetch(
        [a EXCEPT !.selected_city = IF a.selected_city > 0
                                    THEN a.selected_city - 1
                                    ELSE Len(a.cities) - 1])

previous_city(a) ==
    IF a.cities # <<>>
    THEN request_weather_fetch(
             [a EXCEPT !.selected_city = IF a.selected_city > 0
                                         THEN a.selected_city - 1
                                         ELSE Len(a.cities) - 1])
    ELSE a

handle_resize(a, size) == [a EXCEPT !.terminal_size = Some(size)]

\* mutant: the timer refreshes the weather
tick_refreshes(a) == request_weather_fetch(a)

tick(a) == a

\* cities.get(selected_city).cloned()
selected_name(a) ==
    IF a.selected_city + 1 \in DOMAIN a.cities
    THEN Some(a.cities[a.selected_city + 1])
    ELSE None

(***************************************************************************)
(* handler.rs                                                              *)
(***************************************************************************)
\* mutant: the delete key without the clamp of the selection
delete_key_no_clamp(a) ==
    IF a.cities # <<>>
    THEN [a EXCEPT !.cities = remove(a.cities, a.selected_city)]
    ELSE a

\* the delete key: cities.remove(selected_city) and the clamp
delete_key(a) ==
    IF a.cities # <<>>
    THEN LET removed == [a EXCEPT !.cities = remove(a.cities, a.selected_city)]
         IN  IF removed.selected_city >= Len(removed.cities) /\ removed.cities # <<>>
             THEN [removed EXCEPT !.selected_city = Len(removed.cities) - 1]
             ELSE removed
    ELSE a

\* Vec::remove panics when the index is not below the length
remove_panics(k, a) ==
    /\ a.input_mode = "Normal"
    /\ k.code = "Char" /\ k.ch = "d"
    /\ a.cities # <<>>
    /\ a.selected_city >= Len(a.cities)

\* the refresh key: the call of refresh_weather is commented out
refresh_key(a) == a

\* mutant: the Normal mode bindings stay active in Editing mode
handle_key_events_modeless(k, a) ==
    CASE k.code = "Char" /\ k.ch = "q" -> [a EXCEPT !.running = FALSE]
      [] k.code = "Esc" -> [a EXCEPT !.running = FALSE]
      [] k.code = "Up" -> previous_city(a)
      [] k.code = "Down" -> next_city(a)
      [] k.code = "Char" /\ k.ch = "a" -> enter_edit_mode(a)
      [] k.code = "Char" /\ k.ch = "d" -> delete_key(a)
      [] k.code = "Char" /\ k.ch = "r" -> refresh_key(a)
      [] k.code = "Enter" /\ a.input_mode = "Editing" -> add_city(a)
      [] k.code = "Backspace" /\ a.input_mode = "Editing" -> delete_char(a)
      [] k.code = "Char" /\ a.input_mode = "Editing" -> handle_input(a, k.ch)
      [] OTHER -> a

handle_key_events(k, a) ==
    IF a.input_mode = "Normal"
    THEN CASE k.code = "Char" /\ k.ch = "q" -> [a EXCEPT !.running = FALSE]
           [] k.code = "Esc" -> [a EXCEPT !.running = FALSE]
           [] k.code = "Up" -> previous_city(a)
           [] k.code = "Down" -> next_city(a)
           [] k.code = "Char" /\ k.ch = "a" -> enter_edit_mode(a)
           [] k.code = "Char" /\ k.ch = "d" -> delete_key(a)
           [] k.code = "Char" /\ k.ch = "r" -> refresh_key(a)
           [] OTHER -> a
    ELSE CASE k.code = "Esc" -> exit_edit_mode(a)
           [] k.code = "Enter" -> add_city(a)
           [] k.code = "Backspace" -> delete_char(a)
           [] k.code = "Char" -> handle_input(a, k.ch)
           [] OTHER -> a

\* the match on the event of the runtime loop
dispatch(e, a) ==
    CASE e.type = "Key" -> handle_key_events(e, a)
      [] e.type = "Mouse" -> a
      [] e.type = "Resize" -> handle_resize(a, e.size)
      [] e.type = "Tick" -> tick(a)

(***************************************************************************)
(* connection.rs, as fetch_weather sees it: get_data returns a record for  *)
(* the city it was asked about, or an error.                               *)
(***************************************************************************)
CityInfo(city) == [city |-> city]

\* mutant: a failed fetch drops the record on display
fetch_weather_done_clears(a, city, ok) ==
    IF ok THEN [a EXCEPT !.current_weather = Some(CityInfo(city))]
          ELSE [a EXCEPT !.current_weather = None]

\* mutant: a fetched record is stored only when none is held
fetch_weather_done_keep_first(a, city, ok) ==
    IF ok /\ a.current_weather = None
    THEN [a EXCEPT !.current_weather = Some(CityInfo(city))]
    ELSE a

\* fetch_weather after get_data has returned
fetch_weather_done(a, city, ok) ==
    IF ok THEN [a EXCEPT !.current_weather = Some(CityInfo(city))] ELSE a

(***************************************************************************)
(* The state after main has built the application, the terminal and the    *)
(* event publisher.                                                        *)
(***************************************************************************)
Init ==
    /\ app = App_new
    /\ pc = "init"
    /\ panic_msg = ""
    /\ events = <<>>
    /\ produced = 0
    /\ deletes = 0
    /\ outstanding = <<>>
    /\ last = None
    /\ returned = None
    /\ fetch_failed = FALSE
    /\ reply = None
    /\ raw_mode = FALSE
    /\ panic_hook = FALSE

Ended == pc \in {"done", "failed", "panicked"}

(***************************************************************************)
(* Event publisher: the timer and the input device append to the channel   *)
(* at any time, also while the loop is busy.  An entry remembers whether   *)
(* it arrived during the fetch that is outstanding, and whether it is the  *)
(* second of two navigation keys in a row that arrived during one fetch.   *)
(***************************************************************************)
IsNav(e) == e.type = "Key" /\ e.code \in {"Up", "Down"}

Entry(e) ==
    [ev |-> e,
     during |-> outstanding # <<>>,
     second |-> /\ outstanding # <<>>
                /\ IsNav(e)
                /\ events # <<>>
                /\ IsNav(events[Len(events)].ev)
                /\ events[Len(events)].during]

\* the fetch has returned: no entry arrived during the outstanding fetch
Settled(q) == [i \in 1..Len(q) |-> [q[i] EXCEPT !.during = FALSE]]

Enqueue(e) ==
    /\ ~Ended
    /\ Len(events) < MaxQueue
    /\ events' = Append(events, Entry(e))
    /\ UNCHANGED <<app, pc, panic_msg, outstanding, last, returned, fetch_failed,
                   reply, raw_mode, panic_hook>>

Publish(e) ==
    /\ produced < MaxEvents
    /\ produced' = produced + 1
    /\ UNCHANGED deletes
    /\ Enqueue(e)

(***************************************************************************)
(* tui.rs                                                                  *)
(***************************************************************************)
InitOutcomes == {"ok", "raw_mode_fails", "enter_screen_fails", "cursor_fails"}

\* Tui::init, and main returning its error
TuiInit ==
    /\ pc = "init"
    /\ \E outcome \in InitOutcomes :
          /\ raw_mode' = (outcome # "raw_mode_fails")
          /\ panic_hook' = (outcome \in {"ok", "cursor_fails"})
          /\ pc' = IF outcome = "ok" THEN "prefetch" ELSE "failed"
    /\ UNCHANGED <<app, panic_msg, events, produced, deletes, outstanding, last,
                   returned, fetch_failed, reply>>

\* a panic runs the hook, if installed, which resets the terminal
Panic(msg) ==
    /\ pc' = "panicked"
    /\ panic_msg' = msg
    /\ raw_mode' = IF panic_hook THEN FALSE ELSE raw_mode

\* Tui::draw under expect
Draw ==
    /\ pc = "draw"
    /\ \E ok \in BOOLEAN :
          IF ok
          THEN pc' = "next" /\ UNCHANGED <<panic_msg, raw_mode>>
          ELSE Panic("failed to draw the user interface")
    /\ UNCHANGED <<app, events, produced, deletes, outstanding, last, returned,
                   fetch_failed, reply, panic_hook>>

\* Tui::exit
TuiExit ==
    /\ pc = "exit"
    /\ raw_mode' = FALSE
    /\ pc' = "done"
    /\ UNCHANGED <<app, panic_msg, events, produced, deletes, outstanding, last,
                   returned, fetch_failed, reply, panic_hook>>

(***************************************************************************)
(* main.rs                                                                 *)
(***************************************************************************)
\* mutant: the loop goes on without awaiting the fetch it has started
SpawnFetch == "loop"

\* where main is after fetch_weather has sent its request: at the await
AwaitFetch == "fetch_await"

\* what is remembered of a get_data call that returns
Returned(city, ok) == Some([city |-> city, ok |-> ok, before |-> app])

\* mutant: main enters the loop without the fetch before it
InitialFetchSkipped ==
    /\ pc = "prefetch"
    /\ app' = request_weather_fetch(app)
    /\ outstanding' = outstanding
    /\ pc' = "prefetch_done"
    /\ UNCHANGED <<panic_msg, events, produced, deletes, last, returned,
                   fetch_failed, reply, raw_mode, panic_hook>>

\* the request before the loop, and fetch_weather up to its await
InitialFetch ==
    /\ pc = "prefetch"
    /\ app' = request_weather_fetch(app)
    /\ IF selected_name(app) # None
       THEN /\ outstanding' = Append(outstanding, selected_name(app)[1])
            /\ pc' = "prefetch_await"
       ELSE /\ outstanding' = outstanding
            /\ pc' = "prefetch_done"
    /\ UNCHANGED <<panic_msg, events, produced, deletes, last, returned,
                   fetch_failed, reply, raw_mode, panic_hook>>

\* get_data returns to the fetch before the loop; the flag is cleared
InitialFetchDone ==
    /\ pc \in {"prefetch_await", "prefetch_done"}
    /\ IF pc = "prefetch_await"
       THEN \E ok \in BOOLEAN :
               /\ app' = [fetch_weather_done(app, Head(outstanding), ok)
                             EXCEPT !.fetch_requested = FALSE]
               /\ outstanding' = Tail(outstanding)
               /\ returned' = Returned(Head(outstanding), ok)
               /\ fetch_failed' = (fetch_failed \/ ~ok)
       ELSE /\ app' = [app EXCEPT !.fetch_requested = FALSE]
            /\ outstanding' = outstanding
            /\ UNCHANGED <<returned, fetch_failed>>
    /\ events' = Settled(events)
    /\ pc' = "loop"
    /\ UNCHANGED <<panic_msg, produced, deletes, last, reply, raw_mode, panic_hook>>

\* mutant: the loop test ignores running
LoopCheckForever ==
    /\ pc = "loop"
    /\ pc' = "draw"
    /\ last' = None
    /\ returned' = None
    /\ UNCHANGED <<app, panic_msg, events, produced, deletes, outstanding,
                   fetch_failed, reply, raw_mode, panic_hook>>

\* while app.running
LoopCheck ==
    /\ pc = "loop"
    /\ pc' = IF app.running THEN "draw" ELSE "exit"
    /\ last' = None
    /\ returned' = None
    /\ UNCHANGED <<app, panic_msg, events, produced, deletes, outstanding,
                   fetch_failed, reply, raw_mode, panic_hook>>

\* if app.fetch_requested: fetch_weather up to its await
StartFetch(a) ==
    IF a.fetch_requested
    THEN IF selected_name(a) # None
         THEN /\ outstanding' = Append(outstanding, selected_name(a)[1])
              /\ app' = a
              /\ pc' = AwaitFetch
         ELSE /\ outstanding' = outstanding
              /\ app' = [a EXCEPT !.fetch_requested = FALSE]
              /\ pc' = "loop"
    ELSE /\ outstanding' = outstanding
         /\ app' = a
         /\ pc' = "loop"

\* events.next() yields an event: dispatch it, then service the request flag
HandleEvent ==
    /\ pc = "next"
    /\ events # <<>>
    /\ events' = Tail(events)
    /\ last' = Some([ev |-> Head(events).ev,
                     second |-> Head(events).second,
                     before |-> app])
    /\ LET e == Head(events).ev
       IN  IF e.type = "Key" /\ remove_panics(e, app)
           THEN /\ Panic("removal index out of bounds")
                /\ UNCHANGED <<app, outstanding>>
           ELSE /\ StartFetch(dispatch(e, app))
                /\ UNCHANGED <<panic_msg, raw_mode>>
    /\ UNCHANGED <<produced, deletes, returned, fetch_failed, reply, panic_hook>>

\* mutant: the flag is left set when the fetch of the loop has returned
FetchDoneKeepsFlag ==
    /\ pc = "fetch_await"
    /\ outstanding # <<>>
    /\ \E ok \in BOOLEAN :
          /\ app' = fetch_weather_done(app, Head(outstanding), ok)
          /\ returned' = Returned(Head(outstanding), ok)
          /\ fetch_failed' = (fetch_failed \/ ~ok)
    /\ outstanding' = Tail(outstanding)
    /\ events' = Settled(events)
    /\ pc' = "loop"
    /\ last' = None
    /\ UNCHANGED <<panic_msg, produced, deletes, reply, raw_mode, panic_hook>>

\* get_data returns to the fetch of the loop; the flag is cleared
FetchDone ==
    /\ pc = "fetch_await"
    /\ outstanding # <<>>
    /\ \E ok \in BOOLEAN :
          /\ app' = [fetch_weather_done(app, Head(outstanding), ok)
                        EXCEPT !.fetch_requested = FALSE]
          /\ returned' = Returned(Head(outstanding), ok)
          /\ fetch_failed' = (fetch_failed \/ ~ok)
    /\ outstanding' = Tail(outstanding)
    /\ events' = Settled(events)
    /\ pc' = "loop"
    /\ last' = None
    /\ UNCHANGED <<panic_msg, produced, deletes, reply, raw_mode, panic_hook>>

Next ==
    \/ \E e \in Events : Publish(e)
    \/ TuiInit
    \/ InitialFetch
    \/ InitialFetchDone
    \/ LoopCheck
    \/ Draw
    \/ HandleEvent
    \/ FetchDone
    \/ TuiExit

Spec == Init /\ [][Next]_vars

(***************************************************************************)
(* The same program driven by deletions, navigation and quit only, long    *)
(* enough to empty the seed list.                                          *)
(***************************************************************************)
DeleteKey == Key("Char", "d")
DeleteRunEvents == {DeleteKey, Key("Down", ""), Key("Up", ""), Key("Char", "q")}

PublishDeleteRun(e) ==
    /\ IF e = DeleteKey
       THEN /\ deletes < MaxDeletes
            /\ deletes' = deletes + 1
            /\ UNCHANGED produced
       ELSE /\ produced < MaxOthers
            /\ produced' = produced + 1
            /\ UNCHANGED deletes
    /\ Enqueue(e)

NextDeleteRun ==
    \/ \E e \in DeleteRunEvents : PublishDeleteRun(e)
    \/ TuiInit
    \/ InitialFetch
    \/ InitialFetchDone
    \/ LoopCheck
    \/ Draw
    \/ HandleEvent
    \/ FetchDone
    \/ TuiExit

SpecDeleteRun == Init /\ [][NextDeleteRun]_vars

(***************************************************************************)
(* Properties.                                                             *)
(***************************************************************************)
\* the loop has just handled event e, and the App before it satisfied mode m
Handled(e, m) ==
    /\ last # None
    /\ last[1].ev = e
    /\ last[1].before.input_mode = m

Before == last[1].before

\* C1: at most one weather fetch is outstanding at any time, the fetch
\* before the loop included: no fetch is started while another has not returned.
C1_AtMostOneFetch == Len(outstanding) <= 1

\* a fetch started by the loop is outstanding while further events wait
C1_Witness ==
    /\ pc = "fetch_await"
    /\ Len(outstanding) = 1
    /\ Len(events) = MaxQueue

\* C2: while a fetch is outstanding the loop keeps consuming events; the
\* wait for the next event is its only suspension point, so an event that
\* has arrived is never held up by a fetch that has not returned.
C2_FetchNeverDelaysEvent ==
    (outstanding # <<>> /\ events # <<>>) => pc # "fetch_await"

\* C3: of two navigation keys in a row that arrive during one outstanding
\* fetch, the second starts no fetch of its own: the two are coalesced.
C3_SecondNavigationCoalesced ==
    (/\ last # None
     /\ last[1].second
     /\ IsNav(last[1].ev)
     /\ Before.input_mode = "Normal"
     /\ Before.cities # <<>>)
        => pc # "fetch_await"

\* C4: whenever the city list is non-empty, 0 <= selected_city < len(cities).
C4_SelectionInRange ==
    app.cities # <<>>
        => (0 <= app.selected_city /\ app.selected_city < Len(app.cities))

\* the delete key has removed the last city of a longer list: the clamp acted
C4_Witness ==
    /\ Handled(Key("Char", "d"), "Normal")
    /\ Len(Before.cities) >= 2
    /\ Before.selected_city = Len(Before.cities) - 1
    /\ app.selected_city = Len(app.cities) - 1

RECURSIVE next_times(_, _)
next_times(a, n) == IF n = 0 THEN a ELSE next_times(next_city(a), n - 1)

RECURSIVE previous_times(_, _)
previous_times(a, n) ==
    IF n = 0 THEN a ELSE previous_times(previous_city(a), n - 1)

\* C5: on a non-empty list with a valid selection, next applied len(cities)
\* times returns selected_city to its value, and so does previous.
C5_NavigationCyclic ==
    (app.cities # <<>> /\ app.selected_city < Len(app.cities))
        => /\ next_times(app, Len(app.cities)).selected_city = app.selected_city
           /\ previous_times(app, Len(app.cities)).selected_city = app.selected_city

\* next has just wrapped from the last city of a shortened list to the first
C5_Witness ==
    /\ Handled(Key("Down", ""), "Normal")
    /\ Len(Before.cities) \in 2..(Len(SeedCities) - 1)
    /\ Before.selected_city = Len(Before.cities) - 1
    /\ app.selected_city = 0

\* C6: the delete key handled in Normal mode with exactly one city left
\* empties the list and clears current_weather.
C6_DeleteLastClearsWeather ==
    (Handled(DeleteKey, "Normal") /\ Len(Before.cities) = 1)
        => (app.cities = <<>> /\ app.current_weather = None)

\* the selection the delete key leaves on a list of two or more cities
clamped(a) ==
    IF a.selected_city >= Len(a.cities) - 1
    THEN Len(a.cities) - 2
    ELSE a.selected_city

\* C7: the delete key handled in Normal mode with two or more cities removes
\* exactly the selected city, clamps selected_city to the new last index and
\* sets fetch_requested, so that a fetch for the new selection is started.
C7_DeleteRequestsFetch ==
    (Handled(DeleteKey, "Normal") /\ Len(Before.cities) >= 2 /\ pc # "panicked")
        => /\ app.cities = remove(Before.cities, Before.selected_city)
           /\ app.selected_city = clamped(Before)
           /\ app.fetch_requested
           /\ pc = "fetch_await"
           /\ outstanding = <<app.cities[app.selected_city + 1]>>

\* C8: the refresh key handled in Normal mode sets fetch_requested, so that
\* a fetch for the selected city is started in the same iteration.
C8_RefreshRequestsFetch ==
    (Handled(Key("Char", "r"), "Normal") /\ Before.cities # <<>>)
        => /\ app.fetch_requested
           /\ pc = "fetch_await"

\* C9: next or previous on an empty list changes no field of the App,
\* does not panic and starts no fetch.
C9_NavigateEmptyNoOp ==
    (/\ last # None
     /\ IsNav(last[1].ev)
     /\ Before.input_mode = "Normal"
     /\ Before.cities = <<>>)
        => /\ app = Before
           /\ pc = "loop"
           /\ panic_msg = ""
           /\ outstanding = <<>>

\* previous has just been handled on the emptied list
C9_Witness ==
    /\ Handled(Key("Up", ""), "Normal")
    /\ Before.cities = <<>>

\* C10: Enter in Editing mode on an empty or whitespace-only input leaves
\* cities, selected_city and fetch_requested as they were, clears the input
\* and returns to Normal mode; nothing fails and no fetch is started.
C10_CommitBlankIgnored ==
    (Handled(Key("Enter", ""), "Editing") /\ trim(Before.input) = <<>>)
        => /\ app.cities = Before.cities
           /\ app.selected_city = Before.selected_city
           /\ app.fetch_requested = Before.fetch_requested
           /\ app.input = <<>>
           /\ app.input_mode = "Normal"
           /\ app.running
           /\ pc = "loop"
           /\ panic_msg = ""

\* Enter has just been handled on an input of one space
C10_Witness ==
    /\ Handled(Key("Enter", ""), "Editing")
    /\ Before.input = <<" ">>
    /\ app.input_mode = "Normal"

\* C11: Enter in Editing mode on an input that is not blank appends the
\* trimmed text to cities, the entries before it unchanged, selects it,
\* sets fetch_requested, clears the input and returns to Normal mode.
C11_CommitAppends ==
    (Handled(Key("Enter", ""), "Editing") /\ trim(Before.input) # <<>>)
        => /\ Len(app.cities) = Len(Before.cities) + 1
           /\ SubSeq(app.cities, 1, Len(Before.cities)) = Before.cities
           /\ app.cities[Len(app.cities)] = to_string(trim(Before.input))
           /\ app.selected_city = Len(app.cities) - 1
           /\ app.fetch_requested
           /\ app.input = <<>>
           /\ app.input_mode = "Normal"
           /\ pc = "fetch_await"
           /\ outstanding = <<to_string(trim(Before.input))>>

\* Enter has just been handled on " q": the city "q" is the eleventh
C11_Witness ==
    /\ Handled(Key("Enter", ""), "Editing")
    /\ Before.input = <<" ", "q">>
    /\ app.cities = Append(SeedCities, "q")
    /\ app.selected_city = 10


\* C12: a fetch that fails leaves current_weather and running as they were,
\* and the loop goes on: main is back at the loop test, not ended.
C12_FailedFetchKeepsWeather ==
    (returned # None /\ ~returned[1].ok)
        => /\ app.current_weather = returned[1].before.current_weather
           /\ app.running = returned[1].before.running
           /\ app.running
           /\ pc = "loop"
           /\ panic_msg = ""

\* a fetch has just failed while an earlier record was on display
C12_Witness ==
    /\ returned # None
    /\ ~returned[1].ok
    /\ returned[1].before.current_weather # None
    /\ app.current_weather = returned[1].before.current_weather
    /\ pc = "loop"


\* C13: the fetch operation never changes the application state itself:
\* when get_data has returned to it, current_weather is still what it was,
\* and changes only when the loop takes a completion event from the channel.
C13_FetchNeverMutatesState ==
    returned # None
        => app.current_weather = returned[1].before.current_weather


IsQuit(e) == e \in {Key("Char", "q"), Key("Esc", "")}

C15_TerminalRestoredOnEveryExit == Ended => ~raw_mode


\* C16: handling a Tick leaves every field of the application state as it
\* was, fetch_requested included, and starts no fetch.
C16_TickChangesNothing ==
    (last # None /\ last[1].ev = TickEvent)
        => /\ app = Before
           /\ ~app.fetch_requested
           /\ pc = "loop"
           /\ outstanding = <<>>

\* a Tick has just been handled in Editing mode with text typed
C16_Witness ==
    /\ last # None
    /\ last[1].ev = TickEvent
    /\ app.input_mode = "Editing"
    /\ app.input # <<>>
    /\ pc = "loop"


(***************************************************************************)
(* connection.rs: the record get_data builds from the JSON body of a       *)
(* successful response.  A body is a function from the paths it holds to   *)
(* their values; a path below a missing object is missing with it.         *)
(***************************************************************************)
Paths ==
    {"name", "sys.country", "main.temp", "main.feels_like", "main.temp_min",
     "main.temp_max", "weather[0].main", "weather[0].description",
     "weather[0].icon", "main.humidity", "main.pressure", "wind.speed",
     "wind.deg", "visibility", "clouds.all", "sys.sunrise", "sys.sunset", "dt"}

\* the value a well-formed response holds at each path
Sample ==
    ("name" :> "Paris") @@ ("sys.country" :> "FR") @@
    ("main.temp" :> 21) @@ ("main.feels_like" :> 20) @@
    ("main.temp_min" :> 18) @@ ("main.temp_max" :> 23) @@
    ("weather[0].main" :> "Clouds") @@
    ("weather[0].description" :> "broken clouds") @@
    ("weather[0].icon" :> "04d") @@
    ("main.humidity" :> 81) @@ ("main.pressure" :> 1012) @@
    ("wind.speed" :> 4) @@ ("wind.deg" :> 250) @@
    ("visibility" :> 10000) @@ ("clouds.all" :> 75) @@
    ("sys.sunrise" :> 1700000000) @@ ("sys.sunset" :> 1700030000) @@
    ("dt" :> 1700010000)

Bodies == {[p \in present |-> Sample[p]] : present \in SUBSET Paths}

\* weather_data[..].as_str(), as_f64(), as_u64(), as_i64(): none when absent
as_value(json, path) == IF path \in DOMAIN json THEN Some(json[path]) ELSE None

unwrap_or(o, default) == IF o = None THEN default ELSE o[1]

as_u8(n) == n % 256
as_u16(n) == n % 65536
\* every integer of the model is below 2^31, where as u32 keeps the value
as_u32(n) == n

\* the CityInfo literal of get_data
city_info(json) ==
    [name |-> unwrap_or(as_value(json, "name"), "Unknown"),
     country |-> unwrap_or(as_value(json, "sys.country"), "--"),
     temperature |-> unwrap_or(as_value(json, "main.temp"), 0),
     feels_like |-> unwrap_or(as_value(json, "main.feels_like"), 0),
     temp_min |-> unwrap_or(as_value(json, "main.temp_min"), 0),
     temp_max |-> unwrap_or(as_value(json, "main.temp_max"), 0),
     weather_main |-> unwrap_or(as_value(json, "weather[0].main"), "Unknown"),
     description |->
         unwrap_or(as_value(json, "weather[0].description"), "Unknown"),
     icon |-> unwrap_or(as_value(json, "weather[0].icon"), ""),
     humidity |-> as_u8(unwrap_or(as_value(json, "main.humidity"), 0)),
     pressure |-> as_u32(unwrap_or(as_value(json, "main.pressure"), 0)),
     wind_speed |-> unwrap_or(as_value(json, "wind.speed"), 0),
     wind_direction |-> as_u16(unwrap_or(as_value(json, "wind.deg"), 0)),
     visibility |-> as_u32(unwrap_or(as_value(json, "visibility"), 0)),
     clouds |-> as_u8(unwrap_or(as_value(json, "clouds.all"), 0)),
     sunrise |-> as_value(json, "sys.sunrise"),
     sunset |-> as_value(json, "sys.sunset"),
     hourly_temps |-> None,
     timestamp |-> unwrap_or(as_value(json, "dt"), 0)]

Ok(v) == [ok |-> TRUE, value |-> v]
Err(msg) == [ok |-> FALSE, value |-> msg]

\* mutant: a body without a name is rejected
get_data_requires_name(json) ==
    IF "name" \in DOMAIN json THEN Ok(city_info(json))
                              ELSE Err("missing field name")

\* get_data from the parsed body on
get_data_parsed(json) == Ok(city_info(json))

\* a successful response has arrived with some body
InitParse ==
    /\ app = App_new
    /\ pc = "init"
    /\ panic_msg = ""
    /\ events = <<>>
    /\ produced = 0
    /\ deletes = 0
    /\ outstanding = <<>>
    /\ last = None
    /\ returned = None
    /\ fetch_failed = FALSE
    /\ reply \in {[body |-> json, result |-> None] : json \in Bodies}
    /\ raw_mode = FALSE
    /\ panic_hook = FALSE

ParseReply ==
    /\ reply.result = None
    /\ reply' = [reply EXCEPT !.result = Some(get_data_parsed(reply.body))]
    /\ UNCHANGED <<app, pc, panic_msg, events, produced, deletes, outstanding,
                   last, returned, fetch_failed, raw_mode, panic_hook>>

NextParse == ParseReply

SpecParse == InitParse /\ [][NextParse]_vars


\* the path each field of the record is read from
PathOf ==
    [name |-> "name", country |-> "sys.country", temperature |-> "main.temp",
     feels_like |-> "main.feels_like", temp_min |-> "main.temp_min",
     temp_max |-> "main.temp_max", weather_main |-> "weather[0].main",
     description |-> "weather[0].description", icon |-> "weather[0].icon",
     humidity |-> "main.humidity", pressure |-> "main.pressure",
     wind_speed |-> "wind.speed", wind_direction |-> "wind.deg",
     visibility |-> "visibility", clouds |-> "clouds.all",
     sunrise |-> "sys.sunrise", sunset |-> "sys.sunset", timestamp |-> "dt"]

NumberFields ==
    {"temperature", "feels_like", "temp_min", "temp_max", "humidity",
     "pressure", "wind_speed", "wind_direction", "visibility", "clouds",
     "timestamp"}
TextFields == {"name", "country", "weather_main", "description", "icon"}
TimeFields == {"sunrise", "sunset"}

Missing(f) == PathOf[f] \notin DOMAIN reply.body
Parsed == reply.result[1]

\* the parse succeeds, and missing numbers and times take their placeholders
NumbersAndTimesDefault ==
    /\ Parsed.ok
    /\ \A f \in NumberFields : Missing(f) => Parsed.value[f] = 0
    /\ \A f \in TimeFields : Missing(f) => Parsed.value[f] = None

\* C17 as stated: building the record from a body that lacks any subset of
\* the paths succeeds, and every missing field holds its placeholder: 0 for
\* a number, "Unknown" or "--" for a text, none for sunrise and sunset.
C17_MissingKeysDefault ==
    reply.result # None
        => /\ NumbersAndTimesDefault
           /\ \A f \in TextFields :
                 Missing(f) => Parsed.value[f] \in {"Unknown", "--"}

\* C17 amended: as stated, except that the placeholder of the icon id is
\* the empty string; name, weather_main and description default to
\* "Unknown" and country to "--".
C17_MissingKeysDefaultIconEmpty ==
    reply.result # None
        => /\ NumbersAndTimesDefault
           /\ \A f \in {"name", "weather_main", "description"} :
                 Missing(f) => Parsed.value[f] = "Unknown"
           /\ Missing("country") => Parsed.value.country = "--"
           /\ Missing("icon") => Parsed.value.icon = ""

\* the record has been built from a body that holds the name only
C17_Witness ==
    /\ reply.result # None
    /\ DOMAIN reply.body = {"name"}
    /\ Parsed.ok
    /\ Parsed.value.name = "Paris"
    /\ Parsed.value.country = "--"
    /\ Parsed.value.icon = ""
    /\ Parsed.value.sunrise = None
    /\ Parsed.value.humidity = 0


\* C18: the request flag is cleared at the hand-off, before the fetch
\* resolves: it is false for as long as the fetch is outstanding.
C18_FlagClearedAtHandOff == outstanding # <<>> => ~app.fetch_requested

C20_FrameShowsSelectedCity ==
    (/\ pc = "draw"
     /\ outstanding = <<>>
     /\ ~fetch_failed
     /\ app.current_weather # None)
        => selected_name(app) = Some(app.current_weather[1].city)


\* the number of events the loop has taken from the channel
handled == produced + deletes - Len(events)

DefaultCity == SeedCities[1]

\* C21: before the first frame exactly one fetch is made, for the first seed
\* city: none before main reaches it, that one outstanding while main waits,
\* and when it has returned the loop is entered with running true and
\* current_weather holding its record, or nothing if it failed.
C21_OneInitialFetch ==
    /\ pc \in {"init", "prefetch"}
           => /\ outstanding = <<>>
              /\ returned = None
              /\ app.current_weather = None
    /\ pc # "prefetch_done"
    /\ pc = "prefetch_await"
           => /\ outstanding = <<DefaultCity>>
              /\ returned = None
              /\ app.current_weather = None
    /\ (pc = "loop" /\ handled = 0)
           => /\ returned # None
              /\ returned[1].city = DefaultCity
              /\ returned[1].before.current_weather = None
              /\ fetch_failed = ~returned[1].ok
    /\ (pc \in {"loop", "draw"} /\ handled = 0)
           => /\ outstanding = <<>>
              /\ app.running
              /\ app.current_weather =
                     IF fetch_failed THEN None ELSE Some(CityInfo(DefaultCity))

\* the first frame is about to be drawn after the fetch before the loop failed
C21_Witness ==
    /\ pc = "draw"
    /\ handled = 0
    /\ fetch_failed
    /\ app.running
    /\ app.current_weather = None


\* C22: fetch_requested is false at the top of every iteration of the loop:
\* at the loop test, when the frame is drawn and when the loop waits for
\* the next event; a request made by a handler is serviced and cleared
\* before the iteration ends.
C22_FlagFalseAtLoopTop ==
    /\ pc \in {"loop", "draw", "next", "exit", "done"} => ~app.fetch_requested
    /\ app.fetch_requested => pc \in {"prefetch_await", "fetch_await"}

\* the fetch requested by a handler has returned in the same iteration and
\* the flag it set is cleared
C22_Witness ==
    /\ pc = "loop"
    /\ handled >= 1
    /\ returned # None
    /\ returned[1].before.fetch_requested
    /\ ~app.fetch_requested


\* a key has just been handled in Editing mode
EditingKey == last # None /\ last[1].ev.type = "Key" /\ Before.input_mode = "Editing"

Commits == last[1].ev.code = "Enter" /\ trim(Before.input) # <<>>

\* C23: a key handled in Editing mode leaves running, cities, selected_city,
\* fetch_requested and current_weather as they were and starts no fetch,
\* unless it is Enter on an input that is not blank; a character, q, a, d
\* and r included, is appended to the input, and Esc returns to Normal
\* mode with the input cleared and nothing else changed.
C23_EditingKeysOnlyEdit ==
    EditingKey
        => /\ ~Commits
                  => /\ app.running = Before.running
                     /\ app.cities = Before.cities
                     /\ app.selected_city = Before.selected_city
                     /\ app.fetch_requested = Before.fetch_requested
                     /\ app.current_weather = Before.current_weather
                     /\ pc = "loop"
                     /\ outstanding = <<>>
           /\ last[1].ev.code = "Char"
                  => /\ app.input = Append(Before.input, last[1].ev.ch)
                     /\ app.input_mode = "Editing"
           /\ last[1].ev.code = "Esc"
                  => app = [Before EXCEPT !.input_mode = "Normal", !.input = <<>>]

\* q has just been typed after d in Editing mode: the application runs on
\* with all ten cities
C23_Witness ==
    /\ EditingKey
    /\ last[1].ev = Key("Char", "q")
    /\ app.input = <<"d", "q">>
    /\ app.running
    /\ app.cities = SeedCities


\* C24: in Normal mode the input is empty; an event handled in Normal mode,
\* a Tick, a Resize, a mouse event and a fetch that returns all leave the
\* input as it was or empty.
C24_NormalModeInputEmpty ==
    /\ app.input_mode = "Normal" => app.input = <<>>
    /\ (last # None /\ Before.input_mode = "Normal") => app.input = <<>>
    /\ (last # None /\ last[1].ev.type # "Key") => app.input = Before.input
    /\ returned # None => app.input = returned[1].before.input

\* Esc has just cancelled an edit with text typed: Normal mode, input empty
C24_Witness ==
    /\ Handled(Key("Esc", ""), "Editing")
    /\ Before.input # <<>>
    /\ app.input_mode = "Normal"
    /\ app.input = <<>>

====
